---- MODULE Spec2Model ----
(***************************************************************************)
(* A model of the saturn worker broker: Broker (worker/broker.py) and the  *)
(* ExecutorManager (worker/executors/__init__.py).  One asyncio event loop *)
(* runs the tasks; an action is the code a task runs between two points    *)
(* where it suspends.                                                      *)
(***************************************************************************)
EXTENDS Integers, Sequences, FiniteSets, TLC

\* ------------------------------------------------------------------ bounds
\* Number of xmsgs the queues produce in one run.
MaxMsgs == 2
\* Number of xmsgs the queues produce when the executor never returns.
HangMsgs == 4
\* ExecutorManager(concurrency=...): size of the worker pool.
Concurrency == 1
\* Size of the worker pool and number of xmsgs when the queues hold
\* messages that miss no resource and several are processed at once.
FreeConcurrency == 2
FreeMsgs == 3
\* Number of stop() calls after run() started that the history counts.
MaxStops == 2
\* The queues in the database of the control plane.
NumQueues == 12
\* The clock of the control plane: MaxTicks steps of TickMinutes minutes.
MaxTicks == 4
TickMinutes == 5
\* asyncio.Queue(maxsize=1): capacity of the hand-off channel.
QueueMaxsize == 1

Msgs == 1..(IF HangMsgs > MaxMsgs THEN HangMsgs ELSE MaxMsgs)

\* What the control plane can assign.
Queues == {"q1", "q2", "q3"}
Tasks == {"t1"}
Resources == {"r1", "r2"}
ResType == [r \in Resources |-> "R"]
\* The assignments the control plane answers a sync with.
Assignments ==
    { [queues |-> {"q1"}, tasks |-> {"t1"}, resources |-> {"r1"}],
      [queues |-> {"q2"}, tasks |-> {}, resources |-> {"r2"}] }
\* The answers of a control plane that keeps the queue and the task of the
\* worker and gives or takes one resource.
SteadyAssignments ==
    { [queues |-> {"q1"}, tasks |-> {"t1"}, resources |-> {}],
      [queues |-> {"q1"}, tasks |-> {"t1"}, resources |-> {"r1"}] }
\* The answer of a control plane that gives the worker every queue and no
\* resource.
FreeAssignments ==
    { [queues |-> {"q1", "q2", "q3"}, tasks |-> {}, resources |-> {}] }
\* missing_resources of a PipelineMessage: a set of resource types.
NeedChoices == {{}, {"R"}}

\* Output routing table of an xmsg (channel -> list of topics); "None" is a
\* topic entry that is None, skipped by consume_output.
Routes == [a |-> <<"Ta">>, b |-> <<"None", "Tb">>]
\* The outputs process_message can return: lists of channels, with several
\* items and a channel that has no route.
FanOutChoices == {<<>>, <<"c">>, <<"a", "b">>}

\* The queues and the workers known to the control plane.
LockQueues == 1..NumQueues
LockWorkers == {"w1", "w2"}

VARIABLES
    db,             \* control plane: assigned_to and assigned_at of every Queue row
    now,            \* control plane: datetime.now(), in minutes
    lock,           \* control plane: the post_lock request of every worker
    is_running,     \* Broker.is_running
    running_task,   \* Broker.running_task: "none", "pending", "failed", "cancelled"
    closeLog,       \* components closed by Broker.close(), in order
    run_pc,         \* Broker.run: "idle", "await", "returned", "raised"
    stops,          \* calls of Broker.stop() before and after run() started
    qm,             \* run_queue_manager task: [pc, msg]
    wm,             \* run_worker_manager task: its position
    tm,             \* TaskManager.run task: its position
    sched,          \* Scheduler: the active queues
    tasks,          \* TaskManager: the tasks
    pool,           \* ResourcesManager: the resources it knows
    held,           \* ResourcesManager: the resources under lease
    lastSync,       \* the mutations of the last WorkSync, in the order applied
    queue,          \* ExecutorManager.queue, the hand-off channel
    workers,        \* ExecutorManager.processing_tasks: [pc, msg] per worker
    drawn,          \* number of xmsgs drawn from the Scheduler
    xmsg,           \* every ExecutableMessage and the tasks carrying it
    parkers         \* the xmsgs that park each queue

lockVars == <<db, now, lock>>

vars == <<db, now, lock, is_running, running_task, closeLog, run_pc, stops, qm, wm, tm, sched, tasks, pool,
          held, lastSync, queue, workers, drawn, xmsg, parkers>>

brokerVars == <<is_running, running_task, closeLog, run_pc, stops>>
syncVars == <<sched, tasks, pool, lastSync>>

\* An ExecutableMessage that no queue has produced yet.
NewXMsg == [st |-> "new", queue |-> "none", needs |-> {}, res |-> {},
            ctx |-> "open", slow |-> FALSE, parks |-> 0, unparks |-> 0,
            out |-> <<>>, pos |-> 1, phase |-> "try", pubs |-> 0, declined |-> 0,
            waits |-> 0, execs |-> 0, started |-> FALSE]

\* A Queue row that is assigned to nobody.
Unassigned == [to |-> "none", at |-> -1]
\* A request handler that is not running.
NoRequest == [pc |-> "idle", cutoff |-> 0, items |-> <<>>, extras |-> <<>>,
              writes |-> <<>>, kept |-> 0, at |-> 0]

\* The worker tasks of the pool: range(self.concurrency).
Workers == DOMAIN workers

\* The broker after construction, with an executor of `concurrency` workers.
InitPool(concurrency) ==
    /\ is_running = FALSE
    /\ running_task = "none"
    /\ closeLog = <<>>
    /\ run_pc = "idle"
    /\ stops = [early |-> 0, late |-> 0]
    /\ qm = [pc |-> "idle", msg |-> 0]
    /\ wm = "idle"
    /\ tm = "idle"
    /\ sched = {}
    /\ tasks = {}
    /\ pool = {}
    /\ held = {}
    /\ lastSync = <<>>
    /\ queue = <<>>
    /\ workers = [w \in 1..concurrency |-> [pc |-> "none", msg |-> 0]]
    /\ drawn = 0
    /\ xmsg = [m \in Msgs |-> NewXMsg]
    /\ parkers = [q \in Queues |-> {}]

InitWorker == InitPool(Concurrency)

Init ==
    /\ InitWorker
    /\ db = [q \in LockQueues |-> Unassigned]
    /\ now = 0
    /\ lock = [w \in LockWorkers |-> NoRequest]

\* The same with a pool of FreeConcurrency workers.
InitFree ==
    /\ InitPool(FreeConcurrency)
    /\ db = [q \in LockQueues |-> Unassigned]
    /\ now = 0
    /\ lock = [w \in LockWorkers |-> NoRequest]

\* ------------------------------------------------- ExecutableMessage (spec)
\* processable.park(): the xmsg parks its source queue. Parking is
\* idempotent for one parker and counted over the parkers.
park(p, q, m) == [p EXCEPT ![q] = @ \cup {m}]
\* processable.unpark(): the xmsg parks its source queue no longer.
unpark(p, q, m) == [p EXCEPT ![q] = @ \ {m}]
\* The park depth of a queue: the number of its parkers.
ParkDepth(q) == Cardinality(parkers[q])

\* ------------------------------------------------- ResourcesManager (spec)
Available == pool \ held
\* The sets of instances acquire_many(types) can lease: one of every type.
Leases(types) ==
    {S \in SUBSET Available :
        /\ Cardinality(S) = Cardinality(types)
        /\ {ResType[r] : r \in S} = types}
\* release of a lease (the xmsg's scoped context exits).
release(h, res) == h \ res

\* ---------------------------------------------------------- Broker.run
\* run(): is_running, executor.start() spawns the workers, gather() starts
\* the three loops.
run ==
    /\ running_task = "none" /\ ~is_running /\ run_pc = "idle"
    /\ is_running' = TRUE
    /\ running_task' = "pending"
    /\ run_pc' = "await"
    /\ workers' = [w \in Workers |-> [pc |-> "get", msg |-> 0]]
    /\ qm' = [pc |-> "poll", msg |-> 0]
    /\ wm' = "sync"
    /\ tm' = "run"
    /\ UNCHANGED <<lockVars, closeLog, stops, syncVars, held, queue, drawn, xmsg, parkers>>

\* --------------------------------------- ExecutorManager.acquire_resources
\* Mutant of acquire_resources: ResourceUnavailable is swallowed and True
\* is returned with nothing attached.
acquire_resources_unchecked(needs, wait) ==
    IF needs = {} THEN {[ok |-> TRUE, res |-> {}]}
    ELSE IF Leases(needs) /= {}
         THEN {[ok |-> TRUE, res |-> S] : S \in Leases(needs)}
         ELSE {[ok |-> TRUE, res |-> {}]}

\* The outcomes of acquire_resources(processable, wait=wait): True at once
\* when nothing is missing; else acquire_many leases one instance of every
\* missing type and the lease is attached; ResourceUnavailable (wait=False
\* only) makes it return False. With wait=True and a type unavailable there
\* is no outcome yet: the caller stays suspended.
acquire_resources(needs, wait) ==
    IF needs = {} THEN {[ok |-> TRUE, res |-> {}]}
    ELSE IF Leases(needs) /= {}
         THEN {[ok |-> TRUE, res |-> S] : S \in Leases(needs)}
         ELSE IF wait THEN {} ELSE {[ok |-> FALSE, res |-> {}]}

\* Mutant of put_ready: a hand-off channel that holds one xmsg more.
put_ready_wider == Len(queue) < QueueMaxsize + 1

\* queue.put() returns at once when the hand-off channel has room.
put_ready == Len(queue) < QueueMaxsize

\* ------------------------------------------------------ Scheduler (spec)
SchedulerClosed == \E i \in 1..Len(closeLog) : closeLog[i] = "Scheduler"
\* scheduler.run() yields an xmsg of queue q: an active queue that is not
\* parked; after close() it yields nothing.
scheduler_run(q) == ~SchedulerClosed /\ q \in sched /\ ParkDepth(q) = 0

\* ------------------------------------------------ ExecutorManager.submit
\* run_queue_manager draws the next xmsg from scheduler.run() (a queue of
\* the Scheduler that is not parked) and awaits executor.submit(message).
submit(m, q, needs) ==
    /\ qm.pc = "poll" /\ scheduler_run(q)
    /\ m = drawn + 1 /\ m \in Msgs
    /\ drawn' = m
    /\ \E r \in acquire_resources(needs, FALSE) :
        IF r.ok
        THEN /\ held' = held \cup r.res
             /\ UNCHANGED parkers
             /\ IF put_ready
                THEN /\ queue' = Append(queue, m)
                     /\ xmsg' = [xmsg EXCEPT ![m] = [NewXMsg EXCEPT
                                   !.st = "queued", !.queue = q,
                                   !.needs = needs, !.res = r.res]]
                     /\ UNCHANGED qm
                ELSE /\ qm' = [pc |-> "put", msg |-> m]
                     /\ xmsg' = [xmsg EXCEPT ![m] = [NewXMsg EXCEPT
                                   !.st = "put", !.queue = q,
                                   !.needs = needs, !.res = r.res]]
                     /\ UNCHANGED queue
        ELSE \* processable.park(); create_task(delayed_submit(processable))
             /\ parkers' = park(parkers, q, m)
             /\ xmsg' = [xmsg EXCEPT ![m] = [NewXMsg EXCEPT
                           !.st = "acquire", !.queue = q, !.needs = needs,
                           !.slow = TRUE, !.parks = 1]]
             /\ UNCHANGED <<lockVars, held, queue, qm>>
    /\ UNCHANGED <<lockVars, brokerVars, wm, tm, syncVars, workers>>

\* submit(), resumed: the blocked queue.put() completes.
submit_put ==
    /\ qm.pc = "put" /\ put_ready
    /\ queue' = Append(queue, qm.msg)
    /\ xmsg' = [xmsg EXCEPT ![qm.msg].st = "queued"]
    /\ qm' = [pc |-> "poll", msg |-> 0]
    /\ UNCHANGED <<lockVars, brokerVars, wm, tm, syncVars, held, workers, drawn, parkers>>

\* ---------------------------------------- ExecutorManager.delayed_submit
\* Mutant of delayed_submit: the task ends after unpark() and never puts.
delayed_submit_noput(m) ==
    /\ xmsg[m].st = "acquire"
    /\ \E r \in acquire_resources(xmsg[m].needs, TRUE) :
        /\ held' = held \cup r.res
        /\ parkers' = unpark(parkers, xmsg[m].queue, m)
        /\ xmsg' = [xmsg EXCEPT ![m].st = "cancelled", ![m].res = r.res,
                                ![m].unparks = @ + 1, ![m].started = TRUE]
    /\ UNCHANGED <<lockVars, brokerVars, qm, wm, tm, syncVars, queue, workers, drawn>>

\* The first step of the delayed_submit task that submit() created, when a
\* type it misses has no free instance: it suspends in acquire_many(wait=True).
delayed_submit_start(m) ==
    /\ xmsg[m].st = "acquire" /\ ~xmsg[m].started
    /\ acquire_resources(xmsg[m].needs, TRUE) = {}
    /\ xmsg' = [xmsg EXCEPT ![m].started = TRUE]
    /\ UNCHANGED <<lockVars, brokerVars, qm, wm, tm, syncVars, held, queue, workers, drawn,
                   parkers>>

\* acquire_resources(wait=True) returns, in the task's first step or when it
\* is woken up; finally: unpark(); then queue.put().
delayed_submit(m) ==
    /\ xmsg[m].st = "acquire"
    /\ \E r \in acquire_resources(xmsg[m].needs, TRUE) :
        /\ held' = held \cup r.res
        /\ parkers' = unpark(parkers, xmsg[m].queue, m)
        /\ IF put_ready
           THEN /\ queue' = Append(queue, m)
                /\ xmsg' = [xmsg EXCEPT ![m].st = "queued", ![m].res = r.res,
                                        ![m].unparks = @ + 1, ![m].started = TRUE]
           ELSE /\ xmsg' = [xmsg EXCEPT ![m].st = "dput", ![m].res = r.res,
                                        ![m].unparks = @ + 1, ![m].started = TRUE]
                /\ UNCHANGED queue
    /\ UNCHANGED <<lockVars, brokerVars, qm, wm, tm, syncVars, workers, drawn>>

\* delayed_submit(), resumed: the blocked queue.put() completes.
delayed_submit_put(m) ==
    /\ xmsg[m].st = "dput" /\ put_ready
    /\ queue' = Append(queue, m)
    /\ xmsg' = [xmsg EXCEPT ![m].st = "queued"]
    /\ UNCHANGED <<lockVars, brokerVars, qm, wm, tm, syncVars, held, workers, drawn,
                   parkers>>

\* --------------------------------------------- ExecutorManager.run_queue
\* Mutant of run_queue_get: process_message is started in a task of its own
\* and the worker goes back to queue.get().
run_queue_get_spawn(w) ==
    /\ workers[w].pc = "get" /\ queue /= <<>>
    /\ queue' = Tail(queue)
    /\ xmsg' = [xmsg EXCEPT ![Head(queue)].st = "proc",
                            ![Head(queue)].execs = @ + 1]
    /\ UNCHANGED <<lockVars, brokerVars, qm, wm, tm, syncVars, held, workers, drawn,
                   parkers>>

\* Mutant of run_queue_get: the xmsg is read and left in the hand-off
\* channel.
run_queue_get_peek(w) ==
    /\ workers[w].pc = "get" /\ queue /= <<>>
    /\ workers' = [workers EXCEPT ![w] = [pc |-> "proc", msg |-> Head(queue)]]
    /\ xmsg' = [xmsg EXCEPT ![Head(queue)].st = "proc",
                            ![Head(queue)].execs = @ + 1]
    /\ UNCHANGED <<lockVars, brokerVars, qm, wm, tm, syncVars, held, queue, drawn, parkers>>

\* queue.get() returns an xmsg; task_done is registered on its context; the
\* context is entered and process_message is awaited.
run_queue_get(w) ==
    /\ workers[w].pc = "get" /\ queue /= <<>>
    /\ workers' = [workers EXCEPT ![w] = [pc |-> "proc", msg |-> Head(queue)]]
    /\ queue' = Tail(queue)
    /\ xmsg' = [xmsg EXCEPT ![Head(queue)].st = "proc",
                            ![Head(queue)].execs = @ + 1]
    /\ UNCHANGED <<lockVars, brokerVars, qm, wm, tm, syncVars, held, drawn, parkers>>

\* The topics consume_output publishes to, in order: for each output item,
\* processable.output.get(item.channel, []) without its None entries.
\* A slot is <<item index, topic index, topic>>.
TopicsOf(ch) == IF ch \in DOMAIN Routes THEN Routes[ch] ELSE <<>>

ItemSlots(i, topics) ==
    SelectSeq([j \in 1..Len(topics) |-> <<i, j, topics[j]>>],
              LAMBDA s : s[3] /= "None")

RECURSIVE SlotsFrom(_, _)
SlotsFrom(out, i) ==
    IF i > Len(out) THEN <<>>
    ELSE ItemSlots(i, TopicsOf(out[i])) \o SlotsFrom(out, i + 1)

Slots(out) == SlotsFrom(out, 1)

\* Mutant of run_queue_return: the worker awaits the outputs inside the
\* xmsg's context, which stays open with its leases.
run_queue_return_inline(w, out) ==
    /\ workers[w].pc = "proc"
    /\ xmsg' = [xmsg EXCEPT ![workers[w].msg].st = "out",
                            ![workers[w].msg].out = out]
    /\ UNCHANGED <<lockVars, brokerVars, qm, wm, tm, syncVars, held, queue, workers,
                   drawn, parkers>>

\* process_message returns `out`: update_resources_used, then
\* create_task(consume_output(...)); the context exits (leases released,
\* task_done) and the worker loops.
run_queue_return(w, out) ==
    /\ workers[w].pc = "proc"
    /\ LET m == workers[w].msg IN
        /\ xmsg' = [xmsg EXCEPT ![m].st = "out", ![m].out = out,
                                ![m].ctx = "exited", ![m].res = {}]
        /\ held' = release(held, xmsg[m].res)
    /\ workers' = [workers EXCEPT ![w] = [pc |-> "get", msg |-> 0]]
    /\ UNCHANGED <<lockVars, brokerVars, qm, wm, tm, syncVars, queue, drawn, parkers>>

\* Mutant of run_queue_raise: the exception is not caught and ends the
\* worker task.
run_queue_raise_crash(w) ==
    /\ workers[w].pc = "proc"
    /\ LET m == workers[w].msg IN
        /\ xmsg' = [xmsg EXCEPT ![m].st = "failed", ![m].ctx = "exited",
                                ![m].res = {}]
        /\ held' = release(held, xmsg[m].res)
    /\ workers' = [workers EXCEPT ![w] = [pc |-> "failed", msg |-> 0]]
    /\ UNCHANGED <<lockVars, brokerVars, qm, wm, tm, syncVars, queue, drawn, parkers>>

\* process_message raises: the context exits, `except Exception` logs, the
\* worker loops. No consume_output task is created.
run_queue_raise(w) ==
    /\ workers[w].pc = "proc"
    /\ LET m == workers[w].msg IN
        /\ xmsg' = [xmsg EXCEPT ![m].st = "failed", ![m].ctx = "exited",
                                ![m].res = {}]
        /\ held' = release(held, xmsg[m].res)
    /\ workers' = [workers EXCEPT ![w] = [pc |-> "get", msg |-> 0]]
    /\ UNCHANGED <<lockVars, brokerVars, qm, wm, tm, syncVars, queue, drawn, parkers>>

\* ---------------------------------------- ExecutorManager.consume_output
\* The loop moves to the next topic; after the last one the `finally`
\* clause runs: unpark(), and the task ends.
next_topic(rec) ==
    IF rec.pos + 1 > Len(Slots(rec.out))
    THEN [rec EXCEPT !.pos = @ + 1, !.phase = "try", !.st = "done",
                     !.unparks = @ + 1]
    ELSE [rec EXCEPT !.pos = @ + 1, !.phase = "try"]

\* An exception leaves the loop: the `finally` clause runs unpark() and the
\* task ends with the exception.
publish_failed(rec) == [rec EXCEPT !.st = "outfailed", !.unparks = @ + 1]

\* Mutant of parkers_after: unpark() only when the loop ends normally, not
\* in a `finally` clause.
parkers_after_leak(rec, m) ==
    IF rec.st = "done" THEN unpark(parkers, xmsg[m].queue, m) ELSE parkers

\* The parkers after a step that took the task to record `rec`: the
\* `finally` clause has run unpark() when the task has ended.
parkers_after(rec, m) ==
    IF rec.st \in {"done", "outfailed"}
    THEN unpark(parkers, xmsg[m].queue, m) ELSE parkers

\* The task starts with nothing to publish: only the `finally` clause runs.
consume_output_empty(m) ==
    /\ xmsg[m].st = "out" /\ Slots(xmsg[m].out) = <<>>
    /\ xmsg' = [xmsg EXCEPT ![m].st = "done", ![m].unparks = @ + 1]
    /\ parkers' = unpark(parkers, xmsg[m].queue, m)
    /\ UNCHANGED <<lockVars, brokerVars, qm, wm, tm, syncVars, held, queue, workers, drawn>>

\* Mutant of publish_nowait: a declined publish goes on to
\* publish(wait=True) without parking the queue.
publish_nowait_nopark(m, result) ==
    /\ xmsg[m].st = "out" /\ xmsg[m].phase = "try"
    /\ xmsg[m].pos <= Len(Slots(xmsg[m].out))
    /\ LET called == [xmsg[m] EXCEPT !.pubs = @ + 1]
           rec == CASE result = "accepted" -> next_topic(called)
                    [] result = "declined" ->
                         [called EXCEPT !.phase = "wait", !.declined = @ + 1]
                    [] OTHER -> publish_failed(called)
       IN /\ xmsg' = [xmsg EXCEPT ![m] = rec]
          /\ parkers' = parkers_after(rec, m)
    /\ UNCHANGED <<lockVars, brokerVars, qm, wm, tm, syncVars, held, queue, workers, drawn>>

\* await topic.publish(item.message, wait=False) ends with `result`:
\* accepted (True): continue; declined (False): processable.park() and the
\* task goes on to publish(wait=True); raised: the exception propagates.
publish_nowait(m, result) ==
    /\ xmsg[m].st = "out" /\ xmsg[m].phase = "try"
    /\ xmsg[m].pos <= Len(Slots(xmsg[m].out))
    /\ LET called == [xmsg[m] EXCEPT !.pubs = @ + 1]
           rec == CASE result = "accepted" -> next_topic(called)
                    [] result = "declined" ->
                         [called EXCEPT !.phase = "wait", !.parks = @ + 1,
                                        !.declined = @ + 1]
                    [] OTHER -> publish_failed(called)
       IN /\ xmsg' = [xmsg EXCEPT ![m] = rec]
          /\ parkers' = IF result = "declined"
                          THEN park(parkers, xmsg[m].queue, m)
                          ELSE parkers_after(rec, m)
    /\ UNCHANGED <<lockVars, brokerVars, qm, wm, tm, syncVars, held, queue, workers, drawn>>

\* await topic.publish(item.message, wait=True) ends: its value is not
\* looked at; an exception propagates.
publish_wait(m, result) ==
    /\ xmsg[m].st = "out" /\ xmsg[m].phase = "wait"
    /\ LET called == [xmsg[m] EXCEPT !.waits = @ + 1]
           rec == IF result = "raised" THEN publish_failed(called)
                  ELSE next_topic(called)
       IN /\ xmsg' = [xmsg EXCEPT ![m] = rec]
          /\ parkers' = parkers_after(rec, m)
    /\ UNCHANGED <<lockVars, brokerVars, qm, wm, tm, syncVars, held, queue, workers, drawn>>

\* ------------------------------------------- Broker.run_worker_manager
\* The WorkSyncs work_manager.sync() can return: the diff of an assignment
\* against the working set.
WorkSync(a) ==
    [queues |-> [add |-> a.queues \ sched, drop |-> sched \ a.queues],
     tasks |-> [add |-> a.tasks \ tasks, drop |-> tasks \ a.tasks],
     resources |-> [add |-> a.resources \ pool, drop |-> pool \ a.resources]]

\* The six loops of run_worker_manager, in the order they run.
apply_order(ws) ==
    << [on |-> "queues", op |-> "add", items |-> ws.queues.add],
       [on |-> "tasks", op |-> "add", items |-> ws.tasks.add],
       [on |-> "resources", op |-> "add", items |-> ws.resources.add],
       [on |-> "queues", op |-> "drop", items |-> ws.queues.drop],
       [on |-> "tasks", op |-> "drop", items |-> ws.tasks.drop],
       [on |-> "resources", op |-> "drop", items |-> ws.resources.drop] >>

\* scheduler / task_manager / resources_manager .add and .remove
apply_one(set, step, on) ==
    IF step.on /= on THEN set
    ELSE IF step.op = "add" THEN set \cup step.items ELSE set \ step.items

RECURSIVE apply_all(_, _, _)
apply_all(set, steps, on) ==
    IF steps = <<>> THEN set
    ELSE apply_all(apply_one(set, Head(steps), on), Tail(steps), on)

\* Mutant of run_worker_manager: dropping a queue cancels the xmsgs of the
\* queue that are waiting for resources or for the hand-off channel.
run_worker_manager_cancel(ws) ==
    /\ wm = "sync" /\ is_running
    /\ lastSync' = apply_order(ws)
    /\ sched' = apply_all(sched, lastSync', "queues")
    /\ tasks' = apply_all(tasks, lastSync', "tasks")
    /\ pool' = apply_all(pool, lastSync', "resources")
    /\ xmsg' = [m \in Msgs |->
                  IF xmsg[m].queue \in ws.queues.drop
                     /\ xmsg[m].st \in {"acquire", "dput"}
                  THEN [xmsg[m] EXCEPT !.st = "cancelled"]
                  ELSE xmsg[m]]
    /\ UNCHANGED <<lockVars, brokerVars, qm, wm, tm, held, queue, workers, drawn, parkers>>

\* One iteration of the loop, from `await self.work_manager.sync()` to the
\* first suspension: sync() returns `ws`, the queues and the tasks it adds
\* are added, and `await self.resources_manager.add(resource)` is reached.
\* Either no add suspends and the six loops run to the end, or an add
\* suspends: the loop waits in "apply" with the queues and the tasks added,
\* and with the resources and every drop of `ws` still to apply.
run_worker_manager(ws) ==
    /\ wm = "sync" /\ is_running
    /\ lastSync' = apply_order(ws)
    /\ \/ /\ sched' = apply_all(sched, lastSync', "queues")
          /\ tasks' = apply_all(tasks, lastSync', "tasks")
          /\ pool' = apply_all(pool, lastSync', "resources")
          /\ UNCHANGED wm
       \/ /\ ws.resources.add /= {}
          /\ sched' = apply_all(sched, SubSeq(lastSync', 1, 2), "queues")
          /\ tasks' = apply_all(tasks, SubSeq(lastSync', 1, 2), "tasks")
          /\ wm' = "apply"
          /\ UNCHANGED pool
    /\ UNCHANGED <<lockVars, brokerVars, qm, tm, held, queue, workers, drawn, xmsg,
                   parkers>>

\* The resources of the sync being applied whose add has not returned.
adding == IF wm = "apply" THEN lastSync[3].items \ pool ELSE {}

\* The suspended `await self.resources_manager.add(resource)` returns: the
\* resources of `done` are in the pool. With the last of them the three
\* loops that drop run, and the loop goes back to sync(); else the add of
\* the next resource suspends.
run_worker_manager_resume(done) ==
    /\ wm = "apply"
    /\ done /= {} /\ done \subseteq adding
    /\ IF done = adding
       THEN /\ sched' = apply_all(sched, SubSeq(lastSync, 4, 6), "queues")
            /\ tasks' = apply_all(tasks, SubSeq(lastSync, 4, 6), "tasks")
            /\ pool' = apply_all(pool \cup done, SubSeq(lastSync, 4, 6), "resources")
            /\ wm' = "sync"
       ELSE /\ pool' = pool \cup done
            /\ UNCHANGED <<sched, tasks, wm>>
    /\ UNCHANGED <<lockVars, brokerVars, qm, tm, held, lastSync, queue, workers, drawn,
                   xmsg, parkers>>

\* The suspended add raises: nothing in the loop catches it, the task ends
\* with the exception and what was applied of the sync stays applied.
run_worker_manager_add_raise ==
    /\ wm = "apply"
    /\ wm' = "failed"
    /\ UNCHANGED <<lockVars, brokerVars, qm, tm, syncVars, held, queue, workers, drawn,
                   xmsg, parkers>>

\* work_manager.sync() raises: nothing in the loop catches it and the task
\* ends with the exception. running_task is still pending: gather() learns
\* of it in a later callback of the event loop (gather_done).
run_worker_manager_raise ==
    /\ wm = "sync" /\ is_running
    /\ wm' = "failed"
    /\ UNCHANGED <<lockVars, brokerVars, qm, tm, syncVars, held, queue, workers, drawn,
                   xmsg, parkers>>

\* ------------------------------------------- Broker.run_queue_manager
\* scheduler.run() raises in the queue loop: nothing in the loop catches it;
\* the task ends and gather() passes the exception on to run(). gather()
\* leaves the other loops running.
run_queue_manager_raise ==
    /\ qm.pc = "poll"
    /\ qm' = [pc |-> "failed", msg |-> 0]
    /\ UNCHANGED <<lockVars, brokerVars, wm, tm, syncVars, held, queue, workers, drawn,
                   xmsg, parkers>>

\* ------------------------------------------------ TaskManager.run (spec)
\* task_manager.run() raises: the third loop of gather() ends the same way.
task_manager_run_raise ==
    /\ tm = "run"
    /\ tm' = "failed"
    /\ UNCHANGED <<lockVars, brokerVars, qm, wm, syncVars, held, queue, workers, drawn,
                   xmsg, parkers>>

\* The done-callback gather() put on each of the three loops: the first loop
\* that ended with an exception fails running_task, which wakes run().
gather_done ==
    /\ running_task = "pending"
    /\ qm.pc = "failed" \/ wm = "failed" \/ tm = "failed"
    /\ running_task' = "failed"
    /\ UNCHANGED <<lockVars, is_running, closeLog, run_pc, stops, qm, wm, tm, syncVars,
                   held, queue, workers, drawn, xmsg, parkers>>

\* ------------------------------------------------------------ Broker.stop
\* stop(): nothing without a running_task; else running_task.cancel(),
\* which cancels the loops that have not ended unless gather() is done
\* already. When a loop has ended with an exception that gather() has not
\* seen yet, running_task stays pending until gather_done fails it.
cancelled(pc) == IF pc \in {"failed", "done"} THEN pc ELSE "cancelled"

\* Mutant of stop: running_task.cancel() without looking at running_task.
stop_unguarded(cap) ==
    /\ stops' = IF run_pc = "idle"
                THEN [stops EXCEPT !.early = IF cap > 0 THEN 1 ELSE @]
                ELSE [stops EXCEPT !.late = IF @ < cap THEN @ + 1 ELSE @]
    /\ running_task' = "cancelled"
    /\ qm' = [pc |-> "cancelled", msg |-> 0]
    /\ wm' = cancelled(wm)
    /\ tm' = cancelled(tm)
    /\ UNCHANGED <<lockVars, is_running, closeLog, run_pc, syncVars, held, queue, workers,
                   drawn, xmsg, parkers>>

\* The history `stops` records a call before run() started, and counts up
\* to `cap` the calls after it.
stop(cap) ==
    /\ stops' = IF run_pc = "idle"
                THEN [stops EXCEPT !.early = IF cap > 0 THEN 1 ELSE @]
                ELSE [stops EXCEPT !.late = IF @ < cap THEN @ + 1 ELSE @]
    /\ IF running_task = "pending"
       THEN /\ running_task' = IF qm.pc = "failed" \/ wm = "failed" \/ tm = "failed"
                                THEN "pending" ELSE "cancelled"
            /\ qm' = [pc |-> cancelled(qm.pc), msg |-> 0]
            /\ wm' = cancelled(wm)
            /\ tm' = cancelled(tm)
            /\ xmsg' = [m \in Msgs |->
                          IF qm.pc = "put" /\ qm.msg = m
                          THEN [xmsg[m] EXCEPT !.st = "cancelled"]
                          ELSE xmsg[m]]
       ELSE UNCHANGED <<lockVars, running_task, qm, wm, tm, xmsg>>
    /\ UNCHANGED <<lockVars, is_running, closeLog, run_pc, syncVars, held, queue, workers,
                   drawn, parkers>>

\* ----------------------------------------------------------- Broker.close
\* ExecutorManager.close(): task.cancel() for every submit task and every
\* worker. A delayed_submit task that has not run its first step ends
\* without running any of its code; one that is suspended in acquire_many
\* and a worker inside process_message get the CancelledError in a later
\* callback ("cancelling"); a task blocked in queue.put() has nothing to
\* undo.
close_xmsg(rec) ==
    CASE rec.st = "acquire" /\ ~rec.started -> [rec EXCEPT !.st = "cancelled"]
      [] rec.st = "acquire" /\ rec.started -> [rec EXCEPT !.st = "cancelling"]
      [] rec.st = "dput" -> [rec EXCEPT !.st = "cancelled"]
      [] rec.st = "proc" -> [rec EXCEPT !.st = "cancelling"]
      [] OTHER -> rec

\* Mutant of close_order: the executor is closed first.
close_order_executor_first ==
    <<"ExecutorManager", "Scheduler", "TaskManager", "ServicesManager">>

close_order == <<"Scheduler", "TaskManager", "ServicesManager", "ExecutorManager">>

\* The components close() has called the close() of.
Closed == {closeLog[i] : i \in 1..Len(closeLog)}
ExecutorClosed == "ExecutorManager" \in Closed

\* run() leaves `await self.running_task` by an exception or a cancellation,
\* which the `except` clauses log; its `finally` clause awaits close(),
\* which awaits the close() of the four components one after the other.
\* One step calls the close() of the next `n` components: the last of them
\* suspends, or it is the ExecutorManager, whose close() has no await, and
\* run() returns. TaskManager.close() ends task_manager.run();
\* ExecutorManager.close() cancels the tasks, which unwind after that.
close(n) ==
    /\ running_task \in {"failed", "cancelled"} /\ run_pc = "await"
    /\ LET from == Len(closeLog)
           upto == from + n
           calls == {close_order[k] : k \in (from + 1)..upto}
       IN /\ n >= 1 /\ upto <= Len(close_order)
          /\ close_order[upto] = "ExecutorManager" => upto = Len(close_order)
          /\ closeLog' = closeLog \o SubSeq(close_order, from + 1, upto)
          /\ run_pc' = IF upto = Len(close_order) THEN "returned" ELSE run_pc
          /\ tm' = IF "TaskManager" \in calls /\ tm = "run" THEN "done" ELSE tm
          /\ IF "ExecutorManager" \in calls
             THEN /\ xmsg' = [m \in Msgs |-> close_xmsg(xmsg[m])]
                  /\ workers' = [w \in Workers |->
                                    IF workers[w].pc = "proc"
                                    THEN [workers[w] EXCEPT !.pc = "cancelling"]
                                    ELSE [pc |-> "cancelled", msg |-> 0]]
             ELSE UNCHANGED <<xmsg, workers>>
    /\ UNCHANGED <<lockVars, is_running, running_task, stops, qm, wm, syncVars, held,
                   queue, drawn, parkers>>

\* A worker cancelled inside process_message: the CancelledError leaves
\* `async with processable.context` (leases released, task_done), is not
\* caught by `except Exception` and ends the task.
run_queue_cancelled(w) ==
    /\ workers[w].pc = "cancelling"
    /\ xmsg' = [xmsg EXCEPT ![workers[w].msg].st = "cancelled",
                            ![workers[w].msg].ctx = "exited",
                            ![workers[w].msg].res = {}]
    /\ held' = release(held, xmsg[workers[w].msg].res)
    /\ workers' = [workers EXCEPT ![w] = [pc |-> "cancelled", msg |-> 0]]
    /\ UNCHANGED <<lockVars, brokerVars, qm, wm, tm, syncVars, queue, drawn, parkers>>

\* A delayed_submit cancelled inside acquire_resources(wait=True): its
\* `finally` clause runs unpark() and the task ends.
delayed_submit_cancelled(m) ==
    /\ xmsg[m].st = "cancelling" /\ xmsg[m].started
    /\ \A w \in Workers : workers[w].msg /= m
    /\ xmsg' = [xmsg EXCEPT ![m].st = "cancelled", ![m].unparks = @ + 1]
    /\ parkers' = unpark(parkers, xmsg[m].queue, m)
    /\ UNCHANGED <<lockVars, brokerVars, qm, wm, tm, syncVars, held, queue, workers,
                   drawn>>

\* ------------------------------------------------- POST /api/lock
\* timedelta(minutes=15) and max_assigned_items of post_lock.
ExpirationMinutes == 15
max_assigned_items == 10

workerVars == <<is_running, running_task, closeLog, run_pc, stops, qm, wm, tm,
                sched, tasks, pool, held, lastSync, queue, workers, drawn, xmsg,
                parkers>>

\* The Queue rows in the order the store returns them.
Ordered == [q \in LockQueues |-> q]
Range(seq) == {seq[i] : i \in 1..Len(seq)}
Min(a, b) == IF a < b THEN a ELSE b

\* queues_store.get_assigned_queues: the rows assigned to worker_id whose
\* assignment is not older than assigned_after.
get_assigned_queues(rows, worker_id, assigned_after) ==
    SelectSeq(Ordered, LAMBDA q : /\ rows[q].to = worker_id
                                  /\ rows[q].at /= -1
                                  /\ rows[q].at >= assigned_after)

\* queues_store.get_unassigned_queues: at most `limit` rows that were never
\* assigned or whose assignment is older than assigned_before.
get_unassigned_queues(rows, assigned_before, limit) ==
    LET free == SelectSeq(Ordered, LAMBDA q : \/ rows[q].at = -1
                                              \/ rows[q].at < assigned_before)
    IN SubSeq(free, 1, Min(limit, Len(free)))

\* The rows a session sees: the database and the session's own changes.
session_rows(writes) ==
    [q \in LockQueues |-> IF q \in DOMAIN writes THEN writes[q] ELSE db[q]]

\* The changes `f` of a session followed by the changes `g`.
Merge(f, g) ==
    [q \in DOMAIN f \cup DOMAIN g |-> IF q \in DOMAIN g THEN g[q] ELSE f[q]]

\* Mutant of unassign_extra: the extra items are left assigned.
unassign_extra_none(assigned_items) == [q \in {} |-> Unassigned]

\* "Unassign extra items": assigned_at and assigned_to of
\* assigned_items[max_assigned_items:] are set to None.
unassign_extra(assigned_items) ==
    [q \in Range(SubSeq(assigned_items, max_assigned_items + 1,
                        Len(assigned_items))) |-> Unassigned]

\* Mutant of refresh: the owner is written, assigned_at is left at the epoch.
refresh_epoch(assigned_items, worker_id, new_assigned_at) ==
    [q \in Range(assigned_items) |-> [to |-> worker_id, at |-> 0]]

\* "Refresh assignments": every assigned item gets new_assigned_at and the
\* worker_id of the request.
refresh(assigned_items, worker_id, new_assigned_at) ==
    [q \in Range(assigned_items) |-> [to |-> worker_id, at |-> new_assigned_at]]

\* post_lock up to its first suspension: the request is read and the cutoff
\* is taken from the clock, then the handler waits for the session and for
\* get_assigned_queues.
post_lock_begin(w) ==
    /\ lock[w].pc \in {"idle", "done"}
    /\ lock' = [lock EXCEPT ![w] = [NoRequest EXCEPT !.pc = "assigned",
                                                     !.cutoff = now - ExpirationMinutes]]
    /\ UNCHANGED <<db, now, workerVars>>

\* post_lock from the answer of get_assigned_queues to its second query: the
\* extra items unassigned, assigned_items[:10]. With max_assigned_items
\* items already, it goes on to the refresh without another query.
\* `kept` is len(assigned_items) before new queues are added and `at` is
\* new_assigned_at.
post_lock_assigned(w) ==
    /\ lock[w].pc = "assigned"
    /\ LET cutoff == lock[w].cutoff
           assigned == get_assigned_queues(db, w, cutoff)
           kept == SubSeq(assigned, 1, Min(10, Len(assigned)))
           extras == SubSeq(assigned, max_assigned_items + 1, Len(assigned))
       IN lock' = [lock EXCEPT ![w] =
                     IF Len(kept) < max_assigned_items
                     THEN [pc |-> "unassigned", cutoff |-> cutoff,
                           items |-> kept, extras |-> extras,
                           writes |-> unassign_extra(assigned),
                           kept |-> Len(kept), at |-> 0]
                     ELSE [pc |-> "commit", cutoff |-> cutoff,
                           items |-> kept, extras |-> extras,
                           writes |-> Merge(unassign_extra(assigned),
                                            refresh(kept, w, now)),
                           kept |-> Len(kept), at |-> now]]
    /\ UNCHANGED <<db, now, workerVars>>

\* post_lock from get_unassigned_queues to the end of the session block:
\* the new queues fill the remaining slots and every item is refreshed.
post_lock_unassigned(w) ==
    /\ lock[w].pc = "unassigned"
    /\ LET new == get_unassigned_queues(session_rows(lock[w].writes),
                                        lock[w].cutoff,
                                        max_assigned_items - Len(lock[w].items))
           all == lock[w].items \o new
       IN lock' = [lock EXCEPT ![w].pc = "commit", ![w].items = all,
                               ![w].writes = Merge(@, refresh(all, w, now)),
                               ![w].at = now]
    /\ UNCHANGED <<db, now, workerVars>>

\* The session commits: the changed rows are written and the response with
\* the items is sent.
post_lock_commit(w) ==
    /\ lock[w].pc = "commit"
    /\ db' = session_rows(lock[w].writes)
    /\ lock' = [lock EXCEPT ![w].pc = "done", ![w].writes = <<>>]
    /\ UNCHANGED <<now, workerVars>>

\* Time passes on the control plane.
tick ==
    /\ now < MaxTicks * TickMinutes
    /\ now' = now + TickMinutes
    /\ UNCHANGED <<db, lock, workerVars>>

\* The database when the first request comes: the first k queues are
\* assigned to worker w1.
InitLock ==
    /\ InitWorker
    /\ now = 0
    /\ lock = [w \in LockWorkers |-> NoRequest]
    /\ \E k \in 0..NumQueues :
        db = [q \in LockQueues |-> IF q <= k THEN [to |-> "w1", at |-> 0]
                                   ELSE Unassigned]

NextLock ==
    \/ \E w \in LockWorkers : post_lock_begin(w)
    \/ \E w \in LockWorkers : post_lock_assigned(w)
    \/ \E w \in LockWorkers : post_lock_unassigned(w)
    \/ \E w \in LockWorkers : post_lock_commit(w)
    \/ tick

SpecLock == InitLock /\ [][NextLock]_vars

\* ------------------------------------------------------------------ Spec
Publish ==
    \/ \E m \in Msgs : consume_output_empty(m)
    \/ \E m \in Msgs, r \in {"accepted", "declined", "raised"} : publish_nowait(m, r)
    \/ \E m \in Msgs, r \in {"accepted", "raised"} : publish_wait(m, r)

Submit ==
    \/ submit_put
    \/ \E m \in Msgs : delayed_submit_start(m)
    \/ \E m \in Msgs : delayed_submit(m)
    \/ \E m \in Msgs : delayed_submit_put(m)

\* The broker and its executor, from run() to close() and the unwinding of
\* the cancelled tasks, with an executor whose process_message returns no
\* output.
Next ==
    \/ run
    \/ drawn < MaxMsgs /\ \E q \in Queues, needs \in NeedChoices :
                            submit(drawn + 1, q, needs)
    \/ Submit
    \/ \E w \in Workers : run_queue_get(w)
    \/ \E w \in Workers : run_queue_return(w, <<>>)
    \/ \E w \in Workers : run_queue_raise(w)
    \/ \E m \in Msgs : consume_output_empty(m)
    \/ \E a \in Assignments : run_worker_manager(WorkSync(a))
    \/ \E done \in SUBSET Resources : run_worker_manager_resume(done)
    \/ run_worker_manager_add_raise
    \/ run_worker_manager_raise
    \/ run_queue_manager_raise
    \/ task_manager_run_raise
    \/ gather_done
    \/ stop(0)
    \/ \E n \in 1..Len(close_order) : close(n)
    \/ \E w \in Workers : run_queue_cancelled(w)
    \/ \E m \in Msgs : delayed_submit_cancelled(m)

Spec == Init /\ [][Next]_vars

\* The same with an executor whose process_message never returns and xmsgs
\* that miss no resource.
NextHang ==
    \/ run
    \/ drawn < HangMsgs /\ \E q \in Queues : submit(drawn + 1, q, {})
    \/ submit_put
    \/ \E w \in Workers : run_queue_get(w)
    \/ \E a \in Assignments : run_worker_manager(WorkSync(a))
    \/ \E done \in SUBSET Resources : run_worker_manager_resume(done)
    \/ run_worker_manager_add_raise
    \/ run_worker_manager_raise
    \/ gather_done
    \/ stop(0)
    \/ \E n \in 1..Len(close_order) : close(n)
    \/ \E w \in Workers : run_queue_cancelled(w)

SpecHang == Init /\ [][NextHang]_vars

\* The executor with outputs of several items, while the broker runs under
\* a steady assignment.
NextOutput ==
    \/ run
    \/ drawn < MaxMsgs /\ \E q \in Queues, needs \in NeedChoices :
                            submit(drawn + 1, q, needs)
    \/ Submit
    \/ \E w \in Workers : run_queue_get(w)
    \/ \E w \in Workers, out \in FanOutChoices : run_queue_return(w, out)
    \/ \E w \in Workers : run_queue_raise(w)
    \/ Publish
    \/ \E a \in SteadyAssignments : run_worker_manager(WorkSync(a))
    \/ \E done \in SUBSET Resources : run_worker_manager_resume(done)

SpecOutput == Init /\ [][NextOutput]_vars

\* The broker while it runs with a pool of FreeConcurrency workers, every
\* queue assigned, xmsgs that miss no resource and an executor whose
\* process_message returns, with or without an output; the topic accepts
\* or declines the output. The event loop resumes every task that can
\* resume.
FreeOutputs == {<<>>, <<"a">>}
\* The queues the Scheduler can yield the next xmsg from. The queues are
\* alike, so they are named in the order of their first xmsg: the
\* next one comes from a queue that has yielded before or from the first
\* of those that have not.
QueueOrder == <<"q1", "q2", "q3">>
Yielded == {xmsg[m].queue : m \in 1..drawn}
NextQueues ==
    {QueueOrder[i] : i \in {k \in 1..Len(QueueOrder) :
                               \A j \in 1..(k - 1) : QueueOrder[j] \in Yielded}}
NextFree ==
    \/ run
    \/ drawn < FreeMsgs /\ \E q \in NextQueues : submit(drawn + 1, q, {})
    \/ submit_put
    \/ \E w \in Workers : run_queue_get(w)
    \/ \E w \in Workers, out \in FreeOutputs : run_queue_return(w, out)
    \/ \E m \in Msgs : consume_output_empty(m)
    \/ \E m \in Msgs, result \in {"accepted", "declined"} : publish_nowait(m, result)
    \/ \E m \in Msgs : publish_wait(m, "accepted")
    \/ \E a \in FreeAssignments : run_worker_manager(WorkSync(a))

FairnessFree ==
    /\ WF_vars(submit_put)
    /\ \A w \in 1..FreeConcurrency : WF_vars(run_queue_get(w))
    /\ \A w \in 1..FreeConcurrency :
          WF_vars(\E out \in FreeOutputs : run_queue_return(w, out))

SpecFree == InitFree /\ [][NextFree]_vars /\ FairnessFree

\* The life of the broker under a steady assignment: every loop can fail,
\* stop() can be called at any time, and the calls of stop() are counted.
NextLife ==
    \/ run
    \/ drawn < MaxMsgs /\ \E q \in Queues, needs \in NeedChoices :
                            submit(drawn + 1, q, needs)
    \/ Submit
    \/ \E w \in Workers : run_queue_get(w)
    \/ \E w \in Workers : run_queue_return(w, <<>>)
    \/ \E m \in Msgs : consume_output_empty(m)
    \/ \E a \in SteadyAssignments : run_worker_manager(WorkSync(a))
    \/ \E done \in SUBSET Resources : run_worker_manager_resume(done)
    \/ run_worker_manager_add_raise
    \/ run_worker_manager_raise
    \/ run_queue_manager_raise
    \/ task_manager_run_raise
    \/ gather_done
    \/ stop(MaxStops)
    \/ \E n \in 1..Len(close_order) : close(n)
    \/ \E w \in Workers : run_queue_cancelled(w)
    \/ \E m \in Msgs : delayed_submit_cancelled(m)

SpecLife == Init /\ [][NextLife]_vars

\* The executor while the broker runs under a steady assignment, with the
\* fairness of the event loop:
\* a task that can resume is resumed, waiters on the resources and on the
\* hand-off channel are served in turn, and process_message ends.
NextLive ==
    \/ run
    \/ drawn < MaxMsgs /\ \E q \in Queues, needs \in NeedChoices :
                            submit(drawn + 1, q, needs)
    \/ Submit
    \/ \E w \in Workers : run_queue_get(w)
    \/ \E w \in Workers : run_queue_return(w, <<>>)
    \/ \E w \in Workers : run_queue_raise(w)
    \/ \E m \in Msgs : consume_output_empty(m)
    \/ \E a \in SteadyAssignments : run_worker_manager(WorkSync(a))
    \/ \E done \in SUBSET Resources : run_worker_manager_resume(done)

Fairness ==
    /\ \A m \in Msgs : SF_vars(delayed_submit(m))
    /\ \A m \in Msgs : SF_vars(delayed_submit_put(m))
    /\ \A w \in 1..Concurrency : WF_vars(run_queue_get(w))
    /\ \A w \in 1..Concurrency :
          WF_vars(run_queue_return(w, <<>>) \/ run_queue_raise(w))

SpecLive == Init /\ [][NextLive]_vars /\ Fairness

\* ---------------------------------------------------------------- claims
SlowParks(m) == IF xmsg[m].slow THEN 1 ELSE 0
\* park() and unpark() calls made by consume_output for xmsg m
OutputParks(m) == xmsg[m].parks - SlowParks(m)
OutputUnparks(m) ==
    xmsg[m].unparks - (IF xmsg[m].slow /\ xmsg[m].st /= "acquire" THEN 1 ELSE 0)
Waiting(m) == IF xmsg[m].phase = "wait" THEN 1 ELSE 0
Steps(on, op) == {i \in 1..Len(lastSync) : lastSync[i].on = on /\ lastSync[i].op = op
                                             /\ lastSync[i].items /= {}}
Before(on, first, second) ==
    \A i \in Steps(on, first), j \in Steps(on, second) : i < j
SyncItems(on, op) == UNION {lastSync[i].items : i \in Steps(on, op)}
LiveWorkers == {w \in Workers : workers[w].pc \in {"get", "proc"}}
Executed(m) == xmsg[m].st \in {"out", "done", "outfailed", "failed"}

\* C1 (as stated): with an executor that never returns and xmsgs that miss
\* no resource, at most Concurrency + 1 xmsgs are drawn from the Scheduler.
C1_Backpressure == drawn <= Concurrency + 1

\* C1 (amended): at most Concurrency + 2 xmsgs are drawn: Concurrency held
\* by the workers, one in the hand-off channel and one held by the submit()
\* that is blocked on queue.put().
C1_BackpressureAmended == drawn <= Concurrency + 2

C1_Witness ==
    /\ drawn = Concurrency + 2
    /\ qm.pc = "put" /\ Len(queue) = QueueMaxsize
    /\ \A w \in Workers : workers[w].pc = "proc"

\* C2: within one sync, resource adds are applied before resource drops,
\* and queue drops and task drops are applied before queue adds and task
\* adds.
C2_ApplyOrder ==
    /\ Before("resources", "add", "drop")
    /\ Before("queues", "drop", "add")
    /\ Before("tasks", "drop", "add")

\* C3: no poll of the Scheduler sees a sync half applied: whenever the
\* queue loop draws an xmsg from the Scheduler, either every queue add and
\* every queue drop of the last sync is applied, or none is.
C3_SyncAtomic ==
    [][drawn' /= drawn =>
          \/ /\ SyncItems("queues", "add") \subseteq sched
             /\ SyncItems("queues", "drop") \cap sched = {}
          \/ /\ SyncItems("queues", "add") \cap sched = {}
             /\ SyncItems("queues", "drop") \subseteq sched]_vars

\* C4: a failure of work_manager.sync() never ends the sync loop nor the
\* run of the broker: the loop goes on to the next sync.
C4_SyncFailureRetried == wm /= "failed" /\ running_task /= "failed"

\* C5: when process_message raises for an xmsg, its context is left and its
\* leases are released, no consume_output runs for it, and the worker is
\* still alive: until close() every worker of the pool is looping.
C5_PipelineFailure ==
    \A m \in Msgs : xmsg[m].st = "failed" =>
        /\ xmsg[m].ctx = "exited" /\ xmsg[m].res = {}
        /\ xmsg[m].pubs = 0 /\ xmsg[m].waits = 0 /\ OutputUnparks(m) = 0
        /\ ~ExecutorClosed => LiveWorkers = Workers

\* An xmsg fails and the worker then processes the xmsg dequeued after it.
C5_Witness ==
    /\ xmsg[1].st = "failed" /\ ~xmsg[1].slow
    /\ xmsg[2].st = "done" /\ ~xmsg[2].slow

\* C6 (as stated): once an xmsg is finished, park() was called on its
\* queue as often as unpark().
C6_ParkSymmetric ==
    \A m \in Msgs : xmsg[m].st \in {"done", "outfailed"} =>
        xmsg[m].parks = xmsg[m].unparks

\* C6 (amended): once an xmsg is finished it parks its queue no longer,
\* however many publishes declined and whichever path submit() took;
\* unpark() was called once by consume_output and once more on the slow
\* path, park() once per declined publish and once more on the slow path.
C6_ParkReleased ==
    \A m \in Msgs : xmsg[m].st \in {"done", "outfailed"} =>
        /\ \A q \in Queues : m \notin parkers[q]
        /\ xmsg[m].unparks = SlowParks(m) + 1
        /\ xmsg[m].parks = SlowParks(m) + xmsg[m].declined

\* Two publishes of one xmsg declined: two park(), one unpark().
C6_Witness ==
    \E m \in Msgs :
        /\ xmsg[m].st = "done" /\ xmsg[m].parks = 2 /\ xmsg[m].unparks = 1
        /\ ParkDepth(xmsg[m].queue) = 0

\* C7: consume_output calls publish(wait=False) once for every topic it
\* reaches, parks and calls publish(wait=True) once for every publish that
\* declined and for no other, and calls unpark() once, when it ends.
C7_PublishProtocol ==
    \A m \in Msgs :
        /\ xmsg[m].st = "out" =>
            /\ xmsg[m].pubs = xmsg[m].pos - 1 + Waiting(m)
            /\ xmsg[m].waits = xmsg[m].declined - Waiting(m)
            /\ OutputParks(m) = xmsg[m].declined
            /\ OutputUnparks(m) = 0
        /\ xmsg[m].st = "done" =>
            /\ xmsg[m].pubs = Len(Slots(xmsg[m].out))
            /\ xmsg[m].waits = xmsg[m].declined
            /\ OutputParks(m) = xmsg[m].declined
            /\ OutputUnparks(m) = 1
        /\ xmsg[m].st = "outfailed" =>
            /\ xmsg[m].waits <= xmsg[m].declined
            /\ xmsg[m].declined <= xmsg[m].pubs
            /\ OutputParks(m) = xmsg[m].declined
            /\ OutputUnparks(m) = 1

\* Ta accepts at once, Tb declines and then accepts: three publish calls,
\* one park, one unpark.
C7_Witness ==
    \E m \in Msgs :
        /\ xmsg[m].st = "done" /\ xmsg[m].out = <<"a", "b">>
        /\ xmsg[m].pubs = 2 /\ xmsg[m].waits = 1
        /\ OutputParks(m) = 1 /\ OutputUnparks(m) = 1

\* C8: a publish that raises does not end the publication: when
\* consume_output has ended, every topic of every output item was published
\* to.
C8_BestEffortPublish ==
    \A m \in Msgs : xmsg[m].st \in {"done", "outfailed"} =>
        xmsg[m].pubs = Len(Slots(xmsg[m].out))

\* C9: submit() of an xmsg whose resources are unavailable parks the queue
\* and returns; and if the resources are available again and again, the
\* xmsg is eventually unparked, pushed to the hand-off channel and executed.
C9_DelayedSubmit ==
    /\ [](\A m \in Msgs : xmsg[m].st = "acquire" =>
            /\ xmsg[m].parks = 1 /\ xmsg[m].unparks = 0
            /\ m \in parkers[xmsg[m].queue]
            /\ xmsg[m].res = {} /\ qm.msg /= m)
    /\ \A m \in Msgs :
         []<>(xmsg[m].st = "acquire" => Leases(xmsg[m].needs) /= {})
            => ((xmsg[m].st = "acquire")
                    ~> (Executed(m) /\ xmsg[m].unparks >= 1))

C9_Witness ==
    \E m \in Msgs : xmsg[m].slow /\ Executed(m) /\ ParkDepth(xmsg[m].queue) = 0

\* C10: every xmsg in the hand-off channel, or about to be put there, holds
\* a lease for every resource type it misses.
C10_ResourcesBound ==
    \A m \in Msgs : xmsg[m].st \in {"queued", "put", "dput"} =>
        /\ {ResType[r] : r \in xmsg[m].res} = xmsg[m].needs
        /\ xmsg[m].res \subseteq held

C10_Witness ==
    /\ queue /= <<>>
    /\ xmsg[Head(queue)].slow /\ xmsg[Head(queue)].needs /= {}

\* C11: once ExecutorManager.close() has run, no xmsg is left in the
\* hand-off channel with its context open: what the channel held at close()
\* was released.
C11_CloseDrains ==
    ExecutorClosed =>
        \A i \in 1..Len(queue) :
            xmsg[queue[i]].ctx = "exited" /\ xmsg[queue[i]].res = {}

\* C12: an xmsg whose carrying task was cancelled holds no lease, and once
\* the broker has shut down and the cancelled tasks have ended no xmsg holds
\* a lease.
C12_CancelReleases ==
    /\ \A m \in Msgs : xmsg[m].st = "cancelled" => xmsg[m].res = {}
    /\ (ExecutorClosed /\ \A m \in Msgs : xmsg[m].st /= "cancelling")
          => \A m \in Msgs : xmsg[m].res = {}

\* C13: once run() has returned, none of the three loops is still running:
\* after the failure of one, the other two were cancelled.
C13_LoopsCancelled ==
    run_pc = "returned" =>
        /\ qm.pc \notin {"poll", "put"}
        /\ wm \notin {"sync", "apply"}
        /\ tm /= "run"

\* C14: run() never raises; when it has returned, close() has run once and
\* has closed the Scheduler, the TaskManager, the ServicesManager and the
\* ExecutorManager in this order. Until the run has failed or was
\* cancelled nothing is closed, and while close() runs the components it
\* has closed are the first ones of this order, each closed once.
C14_CloseOnce ==
    /\ run_pc /= "raised"
    /\ run_pc = "returned" =>
        closeLog = <<"Scheduler", "TaskManager", "ServicesManager",
                     "ExecutorManager">>
    /\ Len(closeLog) <= 4
    /\ closeLog = SubSeq(<<"Scheduler", "TaskManager", "ServicesManager",
                           "ExecutorManager">>, 1, Len(closeLog))
    /\ run_pc /= "returned" => ~ExecutorClosed
    /\ running_task \notin {"failed", "cancelled"} => closeLog = <<>>
    /\ running_task \in {"failed", "cancelled"} => run_pc \in {"await", "returned"}

\* run() has returned after the failure of the sync loop, with xmsgs drawn.
C14_Witness ==
    /\ run_pc = "returned" /\ running_task = "failed" /\ wm = "failed"
    /\ drawn > 0

\* C15: once stop() has cancelled the run, an xmsg whose delayed submit is
\* waiting for resources is never pushed to the hand-off channel and gets
\* no lease: it stays waiting until its task is cancelled.
C15_StopCancelsAcquire ==
    [][running_task = "cancelled" =>
          \A m \in Msgs : xmsg[m].st = "acquire" =>
              /\ xmsg'[m].st \in {"acquire", "cancelling", "cancelled"}
              /\ xmsg'[m].res = {}]_vars

progVars == <<is_running, running_task, closeLog, run_pc, qm, wm, tm, sched,
              tasks, pool, held, lastSync, queue, workers, drawn, xmsg, parkers>>

LoopsRunning == qm.pc \in {"poll", "put"} \/ wm \in {"sync", "apply"} \/ tm = "run"
LoopFailed == qm.pc = "failed" \/ wm = "failed" \/ tm = "failed"

\* C16: a call of stop() cancels the loops of a pending run and does nothing
\* else: before run() has started, after gather() has failed, after an
\* earlier stop() and after run() has returned it changes nothing.
C16_StopIdempotent ==
    [][stops' /= stops =>
          IF running_task = "pending" /\ LoopsRunning
          THEN /\ ~LoopsRunning'
               /\ running_task' = IF LoopFailed THEN "pending" ELSE "cancelled"
               /\ UNCHANGED <<is_running, closeLog, run_pc>>
          ELSE UNCHANGED progVars]_vars

\* stop() before run(), a run that processed an xmsg, and two more stop().
C16_Witness ==
    /\ stops.early >= 1 /\ stops.late >= 2
    /\ running_task = "cancelled" /\ run_pc = "returned"
    /\ \E m \in Msgs : Executed(m)

InFlight(m) == xmsg[m].st \in {"acquire", "dput", "put", "queued", "proc", "out"}
Processing == {m \in Msgs : xmsg[m].st = "proc"}

\* C17: a step that drops a queue from the Scheduler leaves every xmsg and
\* every task of the ExecutorManager unchanged: the xmsgs waiting for
\* resources, in the hand-off channel, being processed or publishing.
C17_DropFrame ==
    [][sched \ sched' /= {} =>
          UNCHANGED <<xmsg, queue, workers, held, parkers, qm>>]_vars

\* A queue was dropped while two of its xmsgs were in flight at different
\* stages.
C17_Witness ==
    \E q \in SyncItems("queues", "drop") :
        /\ q \notin sched
        /\ \E m, n \in Msgs :
            /\ xmsg[m].queue = q /\ xmsg[n].queue = q
            /\ xmsg[m].st = "proc" /\ xmsg[n].st \in {"acquire", "dput", "queued"}

\* C18: at most Concurrency xmsgs are inside process_message, each held by
\* one worker, and the hand-off channel holds at most one xmsg.
C18_PoolBound ==
    /\ Cardinality(Processing) <= Concurrency
    /\ \A m \in Processing : \E w \in Workers : workers[w] = [pc |-> "proc", msg |-> m]
    /\ Len(queue) <= 1

\* Every worker is inside process_message and the hand-off channel is full.
C18_Witness ==
    /\ Cardinality(Processing) = Concurrency
    /\ Len(queue) = 1
    /\ closeLog = <<>>

\* C19 (as stated): with xmsgs that miss no resource and a process_message
\* that returns, every xmsg drawn from the Scheduler is executed, none is
\* executed twice, and park() is never called.
C19_ExactlyOnce ==
    /\ [](\A m \in Msgs :
            /\ xmsg[m].execs <= 1
            /\ Executed(m) => xmsg[m].execs = 1
            /\ xmsg[m].parks = 0)
    /\ [](\A q \in Queues : parkers[q] = {})
    /\ \A m \in Msgs : (xmsg[m].st /= "new") ~> Executed(m)

\* C19 (amended): with xmsgs that miss no resource and a process_message
\* that returns, every xmsg drawn from the Scheduler is executed, none is
\* executed twice, whichever order the executions end in, and submit()
\* never calls park(): park() is called only by consume_output, once for
\* every publish that declined, and a queue is parked only by xmsgs of its
\* own whose consume_output has met a publish that declined and has not
\* ended.
C19_ExactlyOnceAmended ==
    /\ [](\A m \in Msgs :
            /\ xmsg[m].execs <= 1
            /\ Executed(m) => xmsg[m].execs = 1
            /\ ~xmsg[m].slow
            /\ xmsg[m].parks = xmsg[m].declined)
    /\ [](\A q \in Queues : \A m \in parkers[q] :
            /\ xmsg[m].queue = q
            /\ xmsg[m].st = "out" /\ xmsg[m].declined >= 1)
    /\ \A m \in Msgs : (xmsg[m].st /= "new") ~> Executed(m)

\* Three xmsgs of three queues, a pool of two workers: the second xmsg was
\* executed once and is finished, after a publish that declined, while the
\* first, dequeued before it, and the third are inside process_message.
C19_Witness ==
    /\ {xmsg[1].queue, xmsg[2].queue, xmsg[3].queue} = {"q1", "q2", "q3"}
    /\ xmsg[2].st = "done" /\ xmsg[2].execs = 1 /\ xmsg[2].declined = 1
    /\ xmsg[1].st = "proc" /\ xmsg[3].st = "proc"
    /\ xmsg[1].execs = 1 /\ xmsg[3].execs = 1

NonExpired(q) == db[q].at /= -1 /\ db[q].at >= now - ExpirationMinutes
AssignedTo(w) == {q \in LockQueues : db[q].to = w /\ NonExpired(q)}

\* C20: when a lock call of a worker has ended, its response lists at most
\* 10 queues, the worker has at most 10 queues with an assignment that is
\* not expired, and the queues it held beyond the limit are assigned to it
\* no longer.
C20_AssignLimit ==
    \A w \in LockWorkers : lock[w].pc = "done" =>
        /\ Len(lock[w].items) <= 10
        /\ Cardinality(AssignedTo(w)) <= 10
        /\ Range(lock[w].extras) \cap AssignedTo(w) = {}

\* A worker that held more than 10 queues called lock: 10 are kept, the
\* others are unassigned.
C20_Witness ==
    /\ lock["w1"].pc = "done" /\ Len(lock["w1"].items) = 10
    /\ lock["w1"].extras /= <<>>
    /\ \A q \in Range(lock["w1"].extras) : db[q] = Unassigned
    /\ Cardinality(AssignedTo("w1")) = 10

\* C21: no step gives a queue to another worker while its assignment is
\* not older than 15 minutes.
C21_FreshKept ==
    [][\A q \in LockQueues :
          (db[q].to \in LockWorkers /\ NonExpired(q) /\ db'[q].to \in LockWorkers)
              => db'[q].to = db[q].to]_vars

\* C23: a lock call starts its answer with the queues the caller holds that
\* are not older than the cutoff (at most 10 of them), adds new queues only
\* behind them, and its commit records every queue of the answer as assigned
\* to the caller at new_assigned_at, a time within the call.
C23_HeldFirst ==
    [][\A w \in LockWorkers :
          /\ (lock[w].pc \in {"idle", "done"} /\ lock'[w].pc = "assigned")
                => lock'[w].cutoff = now - ExpirationMinutes
          /\ (lock[w].pc = "assigned" /\ lock'[w].pc \in {"unassigned", "commit"})
                => LET mine == get_assigned_queues(db, w, lock[w].cutoff)
                   IN /\ lock'[w].items = SubSeq(mine, 1, Min(max_assigned_items, Len(mine)))
                      /\ lock'[w].kept = Len(lock'[w].items)
          /\ (lock[w].pc = "unassigned" /\ lock'[w].pc = "commit")
                => /\ SubSeq(lock'[w].items, 1, lock[w].kept) = lock[w].items
                   /\ lock'[w].kept = lock[w].kept
                   /\ Len(lock'[w].items) <= max_assigned_items
          /\ (lock[w].pc = "commit" /\ lock'[w].pc = "done")
                => /\ lock'[w].items = lock[w].items
                   /\ lock[w].at >= lock[w].cutoff + ExpirationMinutes
                   /\ lock[w].at <= now
                   /\ \A q \in Range(lock[w].items) :
                          db'[q] = [to |-> w, at |-> lock[w].at]]_vars

\* A worker that held three queues called lock again five minutes later: its
\* answer is those three queues followed by seven new ones, all recorded as
\* assigned to it at the time of the second call.
C23_Witness ==
    /\ lock["w1"].pc = "done"
    /\ lock["w1"].kept = 3
    /\ lock["w1"].at = TickMinutes
    /\ lock["w1"].items = [i \in 1..max_assigned_items |-> i]
    /\ \A q \in 1..max_assigned_items : db[q] = [to |-> "w1", at |-> TickMinutes]

\* C24: two answered lock requests of different workers, each refreshed no
\* earlier than the cutoff of the other, have no queue in common.
C24_NoDoubleAssign ==
    \A w, v \in LockWorkers :
        (/\ w /= v
         /\ lock[w].pc = "done" /\ lock[v].pc = "done"
         /\ lock[w].at >= lock[v].cutoff
         /\ lock[v].at >= lock[w].cutoff)
            => Range(lock[w].items) \cap Range(lock[v].items) = {}

\* C25: an xmsg whose output task has been spawned and has not finished is
\* out of its context, holds no resource lease and occupies no worker; a
\* worker that is free takes the next xmsg of the hand-off queue whatever the
\* output tasks are doing.
C25_ContextExitsEarly ==
    /\ \A m \in Msgs :
          xmsg[m].st = "out"
              => /\ xmsg[m].ctx = "exited"
                 /\ xmsg[m].res = {}
                 /\ \A w \in Workers : workers[w].msg /= m
    /\ \A w \in Workers :
          (workers[w].pc = "get" /\ queue /= <<>>) => ENABLED run_queue_get(w)

\* An xmsg that used a resource is waiting for room on a topic, its lease
\* given back, while the worker that processed it processes the next xmsg.
C25_Witness ==
    \E m, n \in Msgs, w \in Workers :
        /\ m /= n
        /\ xmsg[m].st = "out" /\ xmsg[m].phase = "wait"
        /\ xmsg[m].pos <= Len(Slots(xmsg[m].out))
        /\ xmsg[m].needs /= {} /\ xmsg[m].res = {}
        /\ workers[w] = [pc |-> "proc", msg |-> n]
        /\ xmsg[n].st = "proc"

====
